---- MODULE Spec2Model ----
(***************************************************************************)
(* IANAZone (src/src/zones/IANAZone.js): the zone identity cache, the two  *)
(* Intl.DateTimeFormat caches, the lazily probed offset strategy and the   *)
(* two offset resolvers, directOffset and calculatedOffset.                *)
(*                                                                         *)
(* Representation.  A string is a sequence of one-character strings where  *)
(* the code indexes or parses it (formatter output) and a TLA+ string      *)
(* where the code only uses it as a key (zone names).  A timestamp is the  *)
(* pair [d, ms] standing for the integer d * 86400000 + ms with            *)
(* 0 <= ms < 86400000; the pair holds the full range of a JavaScript date, *)
(* which a 32-bit integer does not.  A resolved offset of m minutes is     *)
(* held as the integer m * 60000, so that seconds (m + s/60) and           *)
(* sub-second remainders are exact.  Numbers that may be NaN are records   *)
(* [nan, v]; references (undefined, objects) are tagged records.           *)
(***************************************************************************)
EXTENDS Integers, Sequences, FiniteSets, TLC

\* ------------------------------------------------------------------ bounds
MaxZones == 2
MaxResets == 1

\* ------------------------------------------------------- JavaScript values
\* a JavaScript number: NaN, or the integer v
NaN == [nan |-> TRUE, v |-> 0]
Num(v) == [nan |-> FALSE, v |-> v]
MsPerDay == 24 * 3600000

\* references: undefined, the Object function every plain object inherits
\* as "constructor", the id-th IANAZone constructed with a name, and the
\* id-th Intl.DateTimeFormat constructed for a zone with the options of a
\* kind (shape: "direct" or "calc")
Undefined == [t |-> "undefined", id |-> 0, zone |-> "", shape |-> ""]
ObjectCtor == [t |-> "function", id |-> 0, zone |-> "", shape |-> ""]
ZoneRef(name, id) ==
  [t |-> "IANAZone", id |-> id, zone |-> name, shape |-> ""]
DTFRef(id, zone, shape) ==
  [t |-> "DateTimeFormat", id |-> id, zone |-> zone, shape |-> shape]

\* !x of a reference
Falsy(x) == x.t = "undefined"

\* the keys, among the names of the model, that a plain object {} answers
\* without having them as own properties
ProtoKeys == {"constructor"}

\* obj[key] of a plain object whose own properties are the function own
ObjGet(own, key) ==
  IF ~Falsy(own[key]) THEN own[key]
  ELSE IF key \in ProtoKeys THEN ObjectCtor
  ELSE Undefined

\* the plain object {}
EmptyObj == [key \in {"Etc/GMT", "Etc/GMT+1", "Etc/GMT-1", "America/New_York",
                      "Fantasia/Castle", "", "constructor"} |-> Undefined]

Digit == <<"0", "1", "2", "3", "4", "5", "6", "7", "8", "9">>

IsDigit(c) == \E i \in 1..10 : Digit[i] = c

DigitVal(c) == (CHOOSE i \in 1..10 : Digit[i] = c) - 1

\* String.prototype.charCodeAt for the characters formatter output is made of
CharCode(c) ==
  CASE c = " " -> 32
    [] c = "+" -> 43
    [] c = "," -> 44
    [] c = "-" -> 45
    [] c = "/" -> 47
    [] IsDigit(c) -> 48 + DigitVal(c)
    [] c = ":" -> 58
    [] c = "A" -> 65
    [] c = "B" -> 66
    [] c = "C" -> 67
    [] c = "D" -> 68
    [] c = "G" -> 71
    [] c = "M" -> 77
    [] c = "T" -> 84

\* s.charCodeAt(i), i counted from 0; NaN when i is out of range
CharCodeAt(s, i) ==
  IF i < 0 \/ i >= Len(s) THEN NaN ELSE Num(CharCode(s[i + 1]))

\* s.slice(a, b) for 0 <= a, b (indices counted from 0, clamped to the length)
Slice(s, a, b) ==
  LET lo == IF a > Len(s) THEN Len(s) ELSE a
      hi == IF b > Len(s) THEN Len(s) ELSE b
  IN  IF hi <= lo THEN << >> ELSE SubSeq(s, lo + 1, hi)

RECURSIVE DigitsValue(_)
DigitsValue(s) ==
  IF s = << >> THEN 0
  ELSE 10 * DigitsValue(SubSeq(s, 1, Len(s) - 1)) + DigitVal(s[Len(s)])

RECURSIVE Trim(_)
Trim(s) ==
  IF s = << >> THEN s
  ELSE IF s[1] = " " THEN Trim(Tail(s))
  ELSE IF s[Len(s)] = " " THEN Trim(SubSeq(s, 1, Len(s) - 1))
  ELSE s

AllDigits(s) == \A i \in 1..Len(s) : IsDigit(s[i])

\* Number(s): white space is trimmed, the empty string is 0, an optionally
\* signed run of digits is its value, anything else is NaN
Number(s) ==
  LET t == Trim(s) IN
  IF t = << >> THEN Num(0)
  ELSE IF AllDigits(t) THEN Num(DigitsValue(t))
  ELSE IF t[1] \in {"+", "-"} /\ Len(t) > 1 /\ AllDigits(Tail(t))
    THEN Num((IF t[1] = "-" THEN -1 ELSE 1) * DigitsValue(Tail(t)))
  ELSE NaN

\* parseInt(s, 10) of the values formatToParts produces: the leading run of
\* digits, NaN when there is none
RECURSIVE LeadingDigits(_)
LeadingDigits(s) ==
  IF s = << >> \/ ~IsDigit(s[1]) THEN << >>
  ELSE <<s[1]>> \o LeadingDigits(Tail(s))

ParseInt(s) ==
  LET t == Trim(s) IN
  IF LeadingDigits(t) = << >> THEN NaN
  ELSE Num(DigitsValue(LeadingDigits(t)))

\* arithmetic in which NaN is absorbing
Mul(a, b) == IF a.nan \/ b.nan THEN NaN ELSE Num(a.v * b.v)
Add(a, b) == IF a.nan \/ b.nan THEN NaN ELSE Num(a.v + b.v)
Sub(a, b) == IF a.nan \/ b.nan THEN NaN ELSE Num(a.v - b.v)

\* a !== b of two numbers: NaN differs from everything, itself included
StrictNe(a, b) == a.nan \/ b.nan \/ a.v # b.v

\* ------------------------------------------------------------- calendar
\* days since 1970-01-01 of a proleptic Gregorian date
DaysFromCivil(y, m, d) ==
  LET yy == IF m <= 2 THEN y - 1 ELSE y
      era == yy \div 400
      yoe == yy - era * 400
      mp == IF m > 2 THEN m - 3 ELSE m + 9
      doy == ((153 * mp + 2) \div 5) + d - 1
      doe == yoe * 365 + (yoe \div 4) - (yoe \div 100) + doy
  IN  era * 146097 + doe - 719468

\* the proleptic Gregorian date of a day number
CivilFromDays(z) ==
  LET zz == z + 719468
      era == zz \div 146097
      doe == zz - era * 146097
      yoe == (doe - (doe \div 1460) + (doe \div 36524) - (doe \div 146096)) \div 365
      doy == doe - (365 * yoe + (yoe \div 4) - (yoe \div 100))
      mp == (5 * doy + 2) \div 153
      d == doy - ((153 * mp + 2) \div 5) + 1
      m == IF mp < 10 THEN mp + 3 ELSE mp - 9
      y == yoe + era * 400 + (IF m <= 2 THEN 1 ELSE 0)
  IN  [year |-> y, month |-> m, day |-> d]

\* the timestamp d * 86400000 + ms for any integer ms
MkTS(d, ms) ==
  [nan |-> FALSE, d |-> d + (ms \div MsPerDay), ms |-> ms % MsPerDay]

\* the timestamp that is not a number
NaNTS == [nan |-> TRUE, d |-> 0, ms |-> 0]

\* ts % n of JavaScript, for n a divisor of 86400000: the remainder takes
\* the sign of the dividend
TSRem(ts, n) ==
  LET r == ts.ms % n
  IN  IF ts.d >= 0 \/ r = 0 THEN r ELSE r - n

\* a - b of two timestamps, in milliseconds; a difference of more than 20
\* days, which no offset of a zone comes near, is represented by 20 days to
\* stay within the integers of the model
TSDiff(a, b) ==
  LET days == a.d - b.d
  IN  IF days > 20 THEN 20 * MsPerDay
      ELSE IF days < -20 THEN -20 * MsPerDay
      ELSE days * MsPerDay + (a.ms - b.ms)

\* --------------------------------------------------------------- the oracle
\* Intl.DateTimeFormat, the formatting service the module asks.  An oracle is
\* a record: longOffset says how it treats timeZoneName: "longOffset" ("ok":
\* renders the GMT offset token; "rejects": raises when such a formatter is
\* constructed; "formatRaises": raises when such a formatter formats;
\* "flipped": renders the token with the opposite sign), parts says whether
\* formatters have formatToParts, h24 whether midnight is rendered as hour 24
\* under hour12: false.
Oracles ==
  { [longOffset |-> "ok", parts |-> TRUE, h24 |-> TRUE],
    [longOffset |-> "rejects", parts |-> FALSE, h24 |-> FALSE],
    [longOffset |-> "formatRaises", parts |-> TRUE, h24 |-> TRUE],
    [longOffset |-> "flipped", parts |-> TRUE, h24 |-> FALSE] }

\* the oracles the two resolvers are compared on: those, and one that
\* renders the token but has no formatToParts
ResolverOracles ==
  Oracles \cup {[longOffset |-> "ok", parts |-> FALSE, h24 |-> FALSE]}

\* the zone names the oracle accepts
OracleZones == {"Etc/GMT", "Etc/GMT+1", "Etc/GMT-1", "America/New_York"}

\* every string the model passes as a zone name
Names == DOMAIN EmptyObj

\* the names create is called with
ZoneNames == Names \ {""}

\* the strings isValidZone is called with
Candidates == {"Etc/GMT", "Fantasia/Castle", "", "constructor"}

\* 1883-11-18T17:00:00Z, when America/New_York left local mean time
NewYorkStandard == MkTS(DaysFromCivil(1883, 11, 18), 17 * 3600000)

TSLess(a, b) == a.d < b.d \/ (a.d = b.d /\ a.ms < b.ms)

\* the zone's offset from UTC at instant t, in seconds (no instant of the
\* model falls in daylight-saving time)
ZoneOffsetSec(zone, t) ==
  CASE zone = "Etc/GMT" -> 0
    [] zone = "Etc/GMT+1" -> -3600
    [] zone = "Etc/GMT-1" -> 3600
    [] zone = "America/New_York" ->
         IF TSLess(t, NewYorkStandard) THEN -(4 * 3600 + 56 * 60 + 2)
         ELSE -5 * 3600

\* the wall-clock fields of instant t in the zone
WallClock(zone, t) ==
  LET fields(date, ms) ==
        [year |-> date.year, month |-> date.month, day |-> date.day,
         hour |-> (ms \div 3600000),
         minute |-> (ms \div 60000) % 60,
         second |-> (ms \div 1000) % 60]
      at(local) == fields(CivilFromDays(local.d), local.ms)
  IN  at(MkTS(t.d, t.ms + ZoneOffsetSec(zone, t) * 1000))

RECURSIVE ToDigits(_)
ToDigits(n) ==
  IF n < 10 THEN <<Digit[n + 1]>>
  ELSE ToDigits(n \div 10) \o <<Digit[(n % 10) + 1]>>

Pad2(n) == <<Digit[(n \div 10) + 1], Digit[(n % 10) + 1]>>

\* the year of an era-less or era-bearing en-US rendering: 1 BC is year 0
EraYear(y) == IF y <= 0 THEN 1 - y ELSE y

\* the offset token of timeZoneName: "longOffset": GMT, GMT+hh:mm or
\* GMT+hh:mm:ss
OffsetToken(prefix, sec) ==
  LET a == IF sec < 0 THEN -sec ELSE sec
      hhmm == Pad2(a \div 3600) \o <<":">> \o Pad2((a \div 60) % 60)
      ss == IF a % 60 = 0 THEN << >> ELSE <<":">> \o Pad2(a % 60)
  IN  IF sec = 0 THEN prefix
      ELSE prefix \o <<(IF sec < 0 THEN "-" ELSE "+")>> \o hhmm \o ss

\* format(t) of the formatter makeDirectOffsetDTF constructs (en-US, year
\* and longOffset): "1970, GMT-05:00"
DirectText(o, zone, t) ==
  ToDigits(EraYear(WallClock(zone, t).year)) \o <<",", " ">>
    \o OffsetToken(<<"G", "M", "T">>,
                   IF o.longOffset = "flipped" THEN -ZoneOffsetSec(zone, t)
                   ELSE ZoneOffsetSec(zone, t))

\* formatToParts(t) of the formatter makeCalculatedOffsetDTF constructs:
\* month/day/year era, hour:minute:second
CalculatedParts(o, zone, t) ==
  LET lit(v) == [type |-> "literal", value |-> v]
      parts(w) ==
        << [type |-> "month", value |-> Pad2(w.month)], lit(<<"/">>),
           [type |-> "day", value |-> Pad2(w.day)], lit(<<"/">>),
           [type |-> "year", value |-> ToDigits(EraYear(w.year))],
           lit(<<" ">>),
           [type |-> "era",
            value |-> IF w.year <= 0 THEN <<"B", "C">> ELSE <<"A", "D">>],
           lit(<<",", " ">>),
           [type |-> "hour",
            value |-> Pad2(IF o.h24 /\ w.hour = 0 THEN 24 ELSE w.hour)],
           lit(<<":">>),
           [type |-> "minute", value |-> Pad2(w.minute)], lit(<<":">>),
           [type |-> "second", value |-> Pad2(w.second)] >>
  IN  parts(WallClock(zone, t))

\* the left-to-right mark legacy engines put before each field
LRM == "\\u200E"

RECURSIVE JoinParts(_, _)
JoinParts(parts, mark) ==
  IF parts = << >> THEN << >>
  ELSE (IF parts[1].type = "literal" THEN << >> ELSE mark)
         \o parts[1].value \o JoinParts(Tail(parts), mark)

\* format(t) of the same formatter; engines without formatToParts are the
\* ones that mark the fields
CalculatedText(o, zone, t) ==
  JoinParts(CalculatedParts(o, zone, t), IF o.parts THEN << >> ELSE <<LRM>>)

\* whether the oracle constructs a formatter bound to the zone
AcceptsZone(zone) == zone \in OracleZones

\* the instants the resolvers are compared on: the epoch, sub-second
\* instants on both sides of it, 2020-01-01T01:00, 1860 (New York on local
\* mean time), instants in 2 BC and 1 BC, and the turn of 1 BC to AD 1
Instants ==
  { MkTS(0, 0), MkTS(0, 1500), MkTS(0, -1), MkTS(0, -1500),
    MkTS(18262, 3600000), MkTS(-40000, 5), MkTS(-719728, 777),
    MkTS(-719528 + 366, -3600000) }

\* the instants offset() is queried with
QueryInstants == {MkTS(0, 0), MkTS(-719728, 777), NaNTS}

\* the values of Date.now() when the probe runs
NowValues == {MkTS(18262, 3600000), MkTS(20000, 1234)}

\* every instant a formatter is asked to format
AllInstants == Instants \cup NowValues \cup (QueryInstants \ {NaNTS})


\* ------------------------------------------------------- formatter caches
\* The functions of the module read and write its state, the record m:
\*   iana          ianaZoneCache, a plain object keyed by zone name
\*   direct, calc  directOffsetDTFCache and calculatedOffsetDTFCache
\*   offsetFunc    "undefined", "directOffset" or "calculatedOffset"
\*   zones         the IANAZone objects constructed so far, by name and
\*                 in the order of construction: an object's identity is
\*                 its name and its index
\*   dtfs          the number of formatters constructed and cached so far,
\*                 by kind and zone: a formatter's identity is its kind,
\*                 its zone and its index
\*   calls         the oracle invocations of the running operation

Call(fn, shape, zone) == [fn |-> fn, shape |-> shape, zone |-> zone]

\* fault injection for C11: makeDirectOffsetDTF without the lookup in the
\* cache
makeDirectOffsetDTFConstructsAlways(o, m, zone) ==
  LET called == [m EXCEPT !.calls = @ \cup {Call("construct", "direct", zone)}]
      stored == [called EXCEPT
                   !.dtfs.direct[zone] = @ + 1,
                   !.direct[zone] =
                      DTFRef(m.dtfs.direct[zone] + 1, zone, "direct")]
  IN  IF o.longOffset = "rejects" \/ ~AcceptsZone(zone)
        THEN [raised |-> TRUE, dtf |-> Undefined, m |-> called]
      ELSE [raised |-> FALSE, dtf |-> ObjGet(stored.direct, zone), m |-> stored]

\* fault injection for C19: makeDirectOffsetDTF that puts the entry in the
\* cache before the oracle rejects the construction
makeDirectOffsetDTFStoresFirst(o, m, zone) ==
  LET called == [m EXCEPT !.calls = @ \cup {Call("construct", "direct", zone)}]
      stored == [called EXCEPT
                   !.dtfs.direct[zone] = @ + 1,
                   !.direct[zone] =
                      DTFRef(m.dtfs.direct[zone] + 1, zone, "direct")]
  IN  IF ~Falsy(ObjGet(m.direct, zone))
        THEN [raised |-> FALSE, dtf |-> ObjGet(m.direct, zone), m |-> m]
      ELSE IF o.longOffset = "rejects" \/ ~AcceptsZone(zone)
        THEN [raised |-> TRUE, dtf |-> Undefined, m |-> stored]
      ELSE [raised |-> FALSE, dtf |-> ObjGet(stored.direct, zone), m |-> stored]

makeDirectOffsetDTF(o, m, zone) ==
  LET called == [m EXCEPT !.calls = @ \cup {Call("construct", "direct", zone)}]
      stored == [called EXCEPT
                   !.dtfs.direct[zone] = @ + 1,
                   !.direct[zone] =
                      DTFRef(m.dtfs.direct[zone] + 1, zone, "direct")]
  IN  IF ~Falsy(ObjGet(m.direct, zone))
        THEN [raised |-> FALSE, dtf |-> ObjGet(m.direct, zone), m |-> m]
      ELSE IF o.longOffset = "rejects" \/ ~AcceptsZone(zone)
        THEN [raised |-> TRUE, dtf |-> Undefined, m |-> called]
      ELSE [raised |-> FALSE, dtf |-> ObjGet(stored.direct, zone), m |-> stored]

makeCalculatedOffsetDTF(o, m, zone) ==
  LET called == [m EXCEPT !.calls = @ \cup {Call("construct", "calc", zone)}]
      stored == [called EXCEPT
                   !.dtfs.calc[zone] = @ + 1,
                   !.calc[zone] = DTFRef(m.dtfs.calc[zone] + 1, zone, "calc")]
  IN  IF ~Falsy(ObjGet(m.calc, zone))
        THEN [raised |-> FALSE, dtf |-> ObjGet(m.calc, zone), m |-> m]
      ELSE IF ~AcceptsZone(zone)
        THEN [raised |-> TRUE, dtf |-> Undefined, m |-> called]
      ELSE [raised |-> FALSE, dtf |-> ObjGet(stored.calc, zone), m |-> stored]

\* ------------------------------------------------- the calculated resolver
\* a value of the field array: a number or a string
JNum(n) == [t |-> "number", n |-> n, s |-> << >>]
JStr(s) == [t |-> "string", n |-> NaN, s |-> s]
JUndef == [t |-> "undefined", n |-> NaN, s |-> << >>]

\* the numeric coercion arithmetic and Date.UTC apply to a field
ToNumber(x) ==
  CASE x.t = "number" -> x.n
    [] x.t = "string" -> Number(x.s)
    [] OTHER -> NaN

typeToPos ==
  [year |-> 0, month |-> 1, day |-> 2, era |-> 3, hour |-> 4, minute |-> 5,
   second |-> 6]

Rest(s, i) == IF i > Len(s) THEN << >> ELSE SubSeq(s, i, Len(s))

Lit(s, i, c) == i <= Len(s) /\ s[i] = c

\* the regular expression of hackyOffset,
\* (\d+)\/(\d+)\/(\d+) (AD|BC),? (\d+):(\d+):(\d+), as its tokens: "d" is
\* (\d+), "era" is (AD|BC), ",?" the optional comma, the others literals
HackyPattern ==
  <<"d", "/", "d", "/", "d", " ", "era", ",?", " ", "d", ":", "d", ":", "d">>

\* the tokens from the k-th on matched at position p of s (counted from 1);
\* caps are the groups captured so far.  \d+ is greedy and the token after
\* it is never a digit, so there is nothing to backtrack over
RECURSIVE HackyMatch(_, _, _, _)
HackyMatch(s, p, k, caps) ==
  LET digits(ds) ==
        IF ds = << >> THEN [ok |-> FALSE, caps |-> caps]
        ELSE HackyMatch(s, p + Len(ds), k + 1, Append(caps, ds))
      era(e) ==
        IF e \in {<<"A", "D">>, <<"B", "C">>}
          THEN HackyMatch(s, p + 2, k + 1, Append(caps, e))
        ELSE [ok |-> FALSE, caps |-> caps]
  IN  IF k > Len(HackyPattern) THEN [ok |-> TRUE, caps |-> caps]
      ELSE IF HackyPattern[k] = "d" THEN digits(LeadingDigits(Rest(s, p)))
      ELSE IF HackyPattern[k] = "era" THEN era(Slice(s, p - 1, p + 1))
      ELSE IF HackyPattern[k] = ",?"
        THEN HackyMatch(s, IF Lit(s, p, ",") THEN p + 1 ELSE p, k + 1, caps)
      ELSE IF Lit(s, p, HackyPattern[k]) THEN HackyMatch(s, p + 1, k + 1, caps)
      ELSE [ok |-> FALSE, caps |-> caps]

RECURSIVE StripLRM(_)
StripLRM(s) ==
  IF s = << >> THEN s
  ELSE IF s[1] = LRM THEN StripLRM(Tail(s))
  ELSE <<s[1]>> \o StripLRM(Tail(s))

\* hackyOffset on the text dtf.format(date) gave: the fields as strings, or
\* a raise when the regular expression finds no match (parsed is null)
hackyOffset(text) ==
  LET fields(parsed) ==
        [i \in 0..6 |->
          CASE i = 0 -> JStr(parsed[3])
            [] i = 1 -> JStr(parsed[1])
            [] i = 2 -> JStr(parsed[2])
            [] i = 3 -> JStr(parsed[4])
            [] i = 4 -> JStr(parsed[5])
            [] i = 5 -> JStr(parsed[6])
            [] i = 6 -> JStr(parsed[7])]
      exec(formatted) ==
        LET starts == {p \in 1..Len(formatted) :
                         HackyMatch(formatted, p, 1, << >>).ok}
        IN  IF starts = {}
              THEN [raised |-> TRUE, fields |-> [i \in 0..6 |-> JUndef]]
            ELSE [raised |-> FALSE,
                  fields |->
                    fields(HackyMatch(formatted,
                             CHOOSE p \in starts : \A q \in starts : p <= q,
                             1, << >>).caps)]
  IN  exec(StripLRM(text))

RECURSIVE PartsFill(_, _)
PartsFill(formatted, filled) ==
  IF formatted = << >> THEN filled
  ELSE LET type == formatted[1].type
           value == formatted[1].value
       IN  PartsFill(Tail(formatted),
             IF type = "era"
               THEN [filled EXCEPT ![typeToPos[type]] = JStr(value)]
             ELSE IF type \in DOMAIN typeToPos
               THEN [filled EXCEPT ![typeToPos[type]] = JNum(ParseInt(value))]
             ELSE filled)

\* partsOffset on the list dtf.formatToParts(date) gave
partsOffset(formatted) ==
  [raised |-> FALSE, fields |-> PartsFill(formatted, [i \in 0..6 |-> JUndef])]

\* objToLocalTS of impl/util.js: the fields read as a UTC date and time
objToLocalTS(obj) ==
  IF \E k \in DOMAIN obj : obj[k].nan THEN NaNTS
  ELSE MkTS(DaysFromCivil(obj.year.v, obj.month.v, obj.day.v),
            obj.hour.v * 3600000 + obj.minute.v * 60000
              + obj.second.v * 1000 + obj.millisecond.v)

\* fault injection for C8: calculatedOffsetOf without the adjustment of
\* hour 24 to 0
calculatedOffsetOfKeepsHour24(o, zone, ts) ==
  LET fromFields(got) ==
        LET f == got.fields
            adOrBc == f[3]
            year == IF adOrBc.t = "string" /\ adOrBc.s = <<"B", "C">>
                      THEN LET y == ToNumber(f[0])
                           IN  IF y.nan THEN NaN
                               ELSE Num(-(IF y.v < 0 THEN -y.v ELSE y.v) + 1)
                    ELSE ToNumber(f[0])
            over == TSRem(ts, 1000)
            asTS == MkTS(ts.d,
                         ts.ms - (IF over >= 0 THEN over ELSE 1000 + over))
            result(asUTC) ==
              IF got.raised THEN [raised |-> TRUE, val |-> NaN]
              ELSE IF asUTC.nan THEN [raised |-> FALSE, val |-> NaN]
              ELSE [raised |-> FALSE, val |-> Num(TSDiff(asUTC, asTS))]
        IN  result(objToLocalTS(
              [year |-> year, month |-> ToNumber(f[1]),
               day |-> ToNumber(f[2]), hour |-> ToNumber(f[4]),
               minute |-> ToNumber(f[5]), second |-> ToNumber(f[6]),
               millisecond |-> Num(0)]))
  IN  fromFields(IF o.parts THEN partsOffset(CalculatedParts(o, zone, ts))
                 ELSE hackyOffset(CalculatedText(o, zone, ts)))

\* fault injection for C15: calculatedOffsetOf that takes the sub-second
\* remainder off the timestamp whatever its sign
calculatedOffsetOfTruncates(o, zone, ts) ==
  LET fromFields(got) ==
        LET f == got.fields
            adOrBc == f[3]
            year == IF adOrBc.t = "string" /\ adOrBc.s = <<"B", "C">>
                      THEN LET y == ToNumber(f[0])
                           IN  IF y.nan THEN NaN
                               ELSE Num(-(IF y.v < 0 THEN -y.v ELSE y.v) + 1)
                    ELSE ToNumber(f[0])
            hour == f[4]
            adjustedHour == IF hour.t = "number" /\ ~hour.n.nan /\ hour.n.v = 24
                              THEN Num(0) ELSE ToNumber(hour)
            over == TSRem(ts, 1000)
            asTS == MkTS(ts.d, ts.ms - over)
            result(asUTC) ==
              IF got.raised THEN [raised |-> TRUE, val |-> NaN]
              ELSE IF asUTC.nan THEN [raised |-> FALSE, val |-> NaN]
              ELSE [raised |-> FALSE, val |-> Num(TSDiff(asUTC, asTS))]
        IN  result(objToLocalTS(
              [year |-> year, month |-> ToNumber(f[1]),
               day |-> ToNumber(f[2]), hour |-> adjustedHour,
               minute |-> ToNumber(f[5]), second |-> ToNumber(f[6]),
               millisecond |-> Num(0)]))
  IN  fromFields(IF o.parts THEN partsOffset(CalculatedParts(o, zone, ts))
                 ELSE hackyOffset(CalculatedText(o, zone, ts)))

\* fault injection for C16: calculatedOffsetOf without the transformation
\* of a BC year
calculatedOffsetOfKeepsEraYear(o, zone, ts) ==
  LET fromFields(got) ==
        LET f == got.fields
            adOrBc == f[3]
            year == ToNumber(f[0])
            hour == f[4]
            adjustedHour == IF hour.t = "number" /\ ~hour.n.nan /\ hour.n.v = 24
                              THEN Num(0) ELSE ToNumber(hour)
            over == TSRem(ts, 1000)
            asTS == MkTS(ts.d,
                         ts.ms - (IF over >= 0 THEN over ELSE 1000 + over))
            result(asUTC) ==
              IF got.raised THEN [raised |-> TRUE, val |-> NaN]
              ELSE IF asUTC.nan THEN [raised |-> FALSE, val |-> NaN]
              ELSE [raised |-> FALSE, val |-> Num(TSDiff(asUTC, asTS))]
        IN  result(objToLocalTS(
              [year |-> year, month |-> ToNumber(f[1]),
               day |-> ToNumber(f[2]), hour |-> adjustedHour,
               minute |-> ToNumber(f[5]), second |-> ToNumber(f[6]),
               millisecond |-> Num(0)]))
  IN  fromFields(IF o.parts THEN partsOffset(CalculatedParts(o, zone, ts))
                 ELSE hackyOffset(CalculatedText(o, zone, ts)))

\* the body of calculatedOffset from the formatting on: the offset the
\* fields of date ts in the formatter's zone give, or a raise
calculatedOffsetOf(o, zone, ts) ==
  LET fromFields(got) ==
        LET f == got.fields
            adOrBc == f[3]
            year == IF adOrBc.t = "string" /\ adOrBc.s = <<"B", "C">>
                      THEN LET y == ToNumber(f[0])
                           IN  IF y.nan THEN NaN
                               ELSE Num(-(IF y.v < 0 THEN -y.v ELSE y.v) + 1)
                    ELSE ToNumber(f[0])
            hour == f[4]
            adjustedHour == IF hour.t = "number" /\ ~hour.n.nan /\ hour.n.v = 24
                              THEN Num(0) ELSE ToNumber(hour)
            over == TSRem(ts, 1000)
            asTS == MkTS(ts.d,
                         ts.ms - (IF over >= 0 THEN over ELSE 1000 + over))
            result(asUTC) ==
              IF got.raised THEN [raised |-> TRUE, val |-> NaN]
              ELSE IF asUTC.nan THEN [raised |-> FALSE, val |-> NaN]
              ELSE [raised |-> FALSE, val |-> Num(TSDiff(asUTC, asTS))]
        IN  result(objToLocalTS(
              [year |-> year, month |-> ToNumber(f[1]),
               day |-> ToNumber(f[2]), hour |-> adjustedHour,
               minute |-> ToNumber(f[5]), second |-> ToNumber(f[6]),
               millisecond |-> Num(0)]))
  IN  fromFields(IF o.parts THEN partsOffset(CalculatedParts(o, zone, ts))
                 ELSE hackyOffset(CalculatedText(o, zone, ts)))

\* calculatedOffsetOf on every oracle, zone and instant of the model,
\* computed once
calculatedOffsetTable ==
  [o \in ResolverOracles |-> [zone \in OracleZones |-> [ts \in AllInstants |->
     calculatedOffsetOf(o, zone, ts)]]]

calculatedOffset(o, m, zone, ts) ==
  LET with(mk) ==
        LET dtf == mk.dtf
            formatted == [mk.m EXCEPT
                            !.calls = @ \cup {Call("format", "calc", dtf.zone)}]
            result(r) == [raised |-> r.raised, val |-> r.val, m |-> formatted]
        IN  IF mk.raised THEN [raised |-> TRUE, val |-> NaN, m |-> mk.m]
            ELSE IF dtf.t # "DateTimeFormat"
              THEN [raised |-> TRUE, val |-> NaN, m |-> mk.m]
            ELSE result(calculatedOffsetTable[o][dtf.zone][ts])
  IN  IF ts.nan THEN [raised |-> FALSE, val |-> NaN, m |-> m]
      ELSE with(makeCalculatedOffsetDTF(o, m, zone))

\* ----------------------------------------------------- the direct resolver
\* formatted.search(/GMT(...)?/): the index, from 0, of the first GMT, or -1
Search(s) ==
  LET hits == {i \in 1..(Len(s) - 2) :
                 s[i] = "G" /\ s[i + 1] = "M" /\ s[i + 2] = "T"}
  IN  IF hits = {} THEN -1
      ELSE (CHOOSE i \in hits : \A j \in hits : i <= j) - 1

MsPerMinute == 60000

\* fault injection for C7: directOffsetOf without the seconds of the offset
directOffsetOfDropsSeconds(formatted) ==
  LET idx == Search(formatted)
      sign == CharCodeAt(formatted, idx + 3)
  IN  IF sign.nan THEN Num(0)
      ELSE Mul(Sub(Num(44), sign),
             Add(Mul(Number(Slice(formatted, idx + 4, idx + 6)),
                     Num(60 * MsPerMinute)),
                 Mul(Number(Slice(formatted, idx + 7, idx + 9)),
                     Num(MsPerMinute))))

\* fault injection for C13: directOffsetOf with the sign taken the other
\* way round (sign - 44)
directOffsetOfSignFlipped(formatted) ==
  LET idx == Search(formatted)
      sign == CharCodeAt(formatted, idx + 3)
  IN  IF sign.nan THEN Num(0)
      ELSE Mul(Sub(sign, Num(44)),
             Add(Add(Mul(Number(Slice(formatted, idx + 4, idx + 6)),
                         Num(60 * MsPerMinute)),
                     Mul(Number(Slice(formatted, idx + 7, idx + 9)),
                         Num(MsPerMinute))),
                 Mul(Number(Slice(formatted, idx + 10, idx + 12)),
                     Num(MsPerMinute \div 60))))

\* the body of directOffset after the formatting: the offset read off the
\* text
directOffsetOf(formatted) ==
  LET idx == Search(formatted)
      sign == CharCodeAt(formatted, idx + 3)
  IN  IF sign.nan THEN Num(0)
      ELSE Mul(Sub(Num(44), sign),
             Add(Add(Mul(Number(Slice(formatted, idx + 4, idx + 6)),
                         Num(60 * MsPerMinute)),
                     Mul(Number(Slice(formatted, idx + 7, idx + 9)),
                         Num(MsPerMinute))),
                 Mul(Number(Slice(formatted, idx + 10, idx + 12)),
                     Num(MsPerMinute \div 60))))

\* directOffsetOf on the text of every oracle, zone and instant of the
\* model, computed once
directOffsetTable ==
  [o \in ResolverOracles |-> [zone \in OracleZones |-> [ts \in AllInstants |->
     directOffsetOf(DirectText(o, zone, ts))]]]

directOffset(o, m, zone, ts) ==
  LET with(mk) ==
        LET dtf == mk.dtf
            formatted == [mk.m EXCEPT
                            !.calls = @ \cup {Call("format", "direct", dtf.zone)}]
        IN  IF mk.raised THEN [raised |-> TRUE, val |-> NaN, m |-> mk.m]
            ELSE IF dtf.t # "DateTimeFormat"
              THEN [raised |-> FALSE, val |-> NaN, m |-> mk.m]
            ELSE IF ts.nan \/ o.longOffset = "formatRaises"
              THEN [raised |-> FALSE, val |-> NaN, m |-> formatted]
            ELSE [raised |-> FALSE, val |-> directOffsetTable[o][dtf.zone][ts],
                  m |-> formatted]
  IN  with(makeDirectOffsetDTF(o, m, zone))

\* ------------------------------------------------------------ IANAZone
\* fault injection for C10: isValidZone without the test of a falsy name
isValidZoneAsksOracleAlways(m, zone) ==
  LET called == [m EXCEPT !.calls = @ \cup {Call("construct", "plain", zone)}]
  IN  IF AcceptsZone(zone)
        THEN [raised |-> FALSE, ret |-> TRUE,
              m |-> [called EXCEPT
                       !.calls = @ \cup {Call("format", "plain", zone)}]]
      ELSE [raised |-> FALSE, ret |-> FALSE, m |-> called]

isValidZone(m, zone) ==
  LET called == [m EXCEPT !.calls = @ \cup {Call("construct", "plain", zone)}]
  IN  IF zone = "" THEN [raised |-> FALSE, ret |-> FALSE, m |-> m]
      ELSE IF AcceptsZone(zone)
        THEN [raised |-> FALSE, ret |-> TRUE,
              m |-> [called EXCEPT
                       !.calls = @ \cup {Call("format", "plain", zone)}]]
      ELSE [raised |-> FALSE, ret |-> FALSE, m |-> called]

\* new IANAZone(name)
IANAZoneNew(m, name) ==
  LET v == isValidZone(m, name)
  IN  [ret |-> ZoneRef(name, Len(m.zones[name]) + 1),
       m |-> [v.m EXCEPT
                !.zones[name] =
                   Append(@, [zoneName |-> name, valid |-> v.ret])]]

\* fault injection for C1: create without the lookup in the cache
createConstructsAlways(m, name) ==
  LET made == IANAZoneNew(m, name)
      stored == [made.m EXCEPT !.iana[name] = made.ret]
  IN  [ret |-> made.ret, m |-> stored]

create(m, name) ==
  LET made == IANAZoneNew(m, name)
      stored == [made.m EXCEPT !.iana[name] = made.ret]
  IN  IF Falsy(ObjGet(m.iana, name))
        THEN [ret |-> ObjGet(stored.iana, name), m |-> stored]
      ELSE [ret |-> ObjGet(m.iana, name), m |-> m]

\* fault injection for C12: resetCache that marks the zones handed out so
\* far as invalid
resetCacheInvalidates(m) ==
  [m EXCEPT !.iana = EmptyObj, !.calc = EmptyObj, !.direct = EmptyObj,
            !.zones = [n \in DOMAIN @ |->
                         [i \in 1..Len(@[n]) |-> [@[n][i] EXCEPT !.valid = FALSE]]]]

\* fault injection for C3: resetCache that also unresolves the strategy
resetCacheUnresolves(m) ==
  [m EXCEPT !.iana = EmptyObj, !.calc = EmptyObj, !.direct = EmptyObj,
            !.offsetFunc = "undefined"]

\* fault injection for C4: resetCache that leaves the formatter caches
resetCacheKeepsFormatters(m) ==
  [m EXCEPT !.iana = EmptyObj]

resetCache(m) ==
  [m EXCEPT !.iana = EmptyObj, !.calc = EmptyObj, !.direct = EmptyObj]

\* what the probe keeps of a directOffset call
Probed(r) == [raised |-> r.raised, val |-> r.val]

\* fault injection for C6: a probe that compares the result for Etc/GMT only
selectOffsetFuncFirstOnly(o, m, now) ==
  LET caught(r, log) ==
        [func |-> "calculatedOffset", raised |-> FALSE, m |-> r.m, log |-> log]
      third(d1, d2, d3) ==
        IF d3.raised THEN caught(d3, <<Probed(d1), Probed(d2), Probed(d3)>>)
        ELSE [func |-> "directOffset", raised |-> FALSE, m |-> d3.m,
              log |-> <<Probed(d1), Probed(d2), Probed(d3)>>]
      second(d1, d2) ==
        IF d2.raised THEN caught(d2, <<Probed(d1), Probed(d2)>>)
        ELSE third(d1, d2, directOffset(o, d2.m, "Etc/GMT-1", now))
      first(d1) ==
        IF d1.raised \/ StrictNe(d1.val, Num(0))
          THEN caught(d1, <<Probed(d1)>>)
        ELSE second(d1, directOffset(o, d1.m, "Etc/GMT+1", now))
  IN  first(directOffset(o, m, "Etc/GMT", now))

\* the probe of offset(): directOffset on the three reference zones inside
\* try/catch, the comparisons short-circuiting as || does; log lists the
\* calls made and what they gave
selectOffsetFunc(o, m, now) ==
  LET caught(r, log) ==
        [func |-> "calculatedOffset", raised |-> FALSE, m |-> r.m, log |-> log]
      third(d1, d2, d3) ==
        IF d3.raised \/ StrictNe(d3.val, Num(60 * MsPerMinute))
          THEN caught(d3, <<Probed(d1), Probed(d2), Probed(d3)>>)
        ELSE [func |-> "directOffset", raised |-> FALSE, m |-> d3.m,
              log |-> <<Probed(d1), Probed(d2), Probed(d3)>>]
      second(d1, d2) ==
        IF d2.raised \/ StrictNe(d2.val, Num(-60 * MsPerMinute))
          THEN caught(d2, <<Probed(d1), Probed(d2)>>)
        ELSE third(d1, d2, directOffset(o, d2.m, "Etc/GMT-1", now))
      first(d1) ==
        IF d1.raised \/ StrictNe(d1.val, Num(0))
          THEN caught(d1, <<Probed(d1)>>)
        ELSE second(d1, directOffset(o, d1.m, "Etc/GMT+1", now))
  IN  first(directOffset(o, m, "Etc/GMT", now))

\* fault injection for C18: an offset that queries through
\* calculatedOffset whichever strategy is active
offsetQueriesCalculated(o, m, this, ts, now) ==
  LET name == m.zones[this.zone][this.id].zoneName
      result(sel, r) ==
        [raised |-> r.raised, val |-> r.val, m |-> r.m,
         probed |-> m.offsetFunc = "undefined", log |-> sel.log]
      query(sel, m1) == result(sel, calculatedOffset(o, m1, name, ts))
      resolved(sel) ==
        query(sel, [sel.m EXCEPT !.offsetFunc = sel.func, !.calls = {}])
  IN  resolved(IF m.offsetFunc = "undefined" THEN selectOffsetFunc(o, m, now)
               ELSE [func |-> m.offsetFunc, raised |-> FALSE, m |-> m,
                     log |-> << >>])

\* this.equals(otherZone) for an IANAZone otherZone, whose type is "iana"
equals(m, this, otherZone) ==
  m.zones[otherZone.zone][otherZone.id].zoneName
    = m.zones[this.zone][this.id].zoneName

\* this.offset(ts) of the zone object this; now is Date.now().  calls is
\* emptied after the probe: it lists the oracle invocations of the query's
\* own resolver call
offset(o, m, this, ts, now) ==
  LET name == m.zones[this.zone][this.id].zoneName
      result(sel, r) ==
        [raised |-> r.raised, val |-> r.val, m |-> r.m,
         probed |-> m.offsetFunc = "undefined", log |-> sel.log]
      query(sel, m1) ==
        result(sel, IF sel.func = "directOffset"
                      THEN directOffset(o, m1, name, ts)
                    ELSE calculatedOffset(o, m1, name, ts))
      resolved(sel) ==
        query(sel, [sel.m EXCEPT !.offsetFunc = sel.func, !.calls = {}])
  IN  resolved(IF m.offsetFunc = "undefined" THEN selectOffsetFunc(o, m, now)
               ELSE [func |-> m.offsetFunc, raised |-> FALSE, m |-> m,
                     log |-> << >>])

\* -------------------------------------------------------------- the state
VARIABLES
  ianaZoneCache,            \* name -> reference of the cached zone
  directOffsetDTFCache,     \* zone -> reference of the cached formatter
  calculatedOffsetDTFCache, \* zone -> reference of the cached formatter
  offsetFunc,               \* the active strategy
  zones,                    \* the IANAZone objects, by identity
  dtfs,                     \* how many formatters were constructed, by
                            \* kind and zone
  oracle,                   \* the Intl implementation of this process
  last,                     \* the latest operation, its inputs and its result
  created,                  \* name -> what create first returned for it
                            \* since the latest resetCache
  resets,                   \* how often resetCache ran
  resetPending,             \* a resetCache ran and no offset query since
  probeRuns,                \* how often the probe ran (counted up to 2)
  selected,                 \* the strategy the first probe selected
  both                      \* the two resolvers' results for one input

vars ==
  <<ianaZoneCache, directOffsetDTFCache, calculatedOffsetDTFCache, offsetFunc,
    zones, dtfs, oracle, last, created, resets, resetPending, probeRuns,
    selected, both>>

\* the module state at the start of an operation
Module ==
  [iana |-> ianaZoneCache, direct |-> directOffsetDTFCache,
   calc |-> calculatedOffsetDTFCache, offsetFunc |-> offsetFunc,
   zones |-> zones, dtfs |-> dtfs, calls |-> {}]

Store(m) ==
  /\ ianaZoneCache' = m.iana
  /\ directOffsetDTFCache' = m.direct
  /\ calculatedOffsetDTFCache' = m.calc
  /\ offsetFunc' = m.offsetFunc
  /\ zones' = m.zones
  /\ dtfs' = m.dtfs

\* op, name, ts: the operation and its inputs; ref, num, bool, raised: its
\* result; again: create had returned for this name since the latest reset;
\* constructed: create constructed a zone; afterReset: the first offset
\* query after a resetCache; probed, log: the probe ran, and its
\* directOffset results; calls: the oracle invocations (of the resolver
\* call, for offset); text, sec, tail: a formatted text directOffset parsed,
\* the offset in seconds its token renders, and what follows the token
NoOp ==
  [op |-> "none", name |-> "", ts |-> NaNTS, ref |-> Undefined, num |-> NaN,
   bool |-> FALSE, raised |-> FALSE, again |-> FALSE, constructed |-> FALSE,
   afterReset |-> FALSE, probed |-> FALSE, log |-> << >>, calls |-> {},
   text |-> << >>, sec |-> 0, tail |-> << >>]

NoBoth ==
  [zone |-> "", ts |-> NaNTS, direct |-> [raised |-> FALSE, val |-> NaN],
   calculated |-> [raised |-> FALSE, val |-> NaN]]

Init ==
  /\ ianaZoneCache = EmptyObj
  /\ directOffsetDTFCache = EmptyObj
  /\ calculatedOffsetDTFCache = EmptyObj
  /\ offsetFunc = "undefined"
  /\ zones = [n \in Names |-> << >>]
  /\ dtfs = [direct |-> [n \in Names |-> 0], calc |-> [n \in Names |-> 0]]
  /\ oracle \in Oracles
  /\ last = NoOp
  /\ created = EmptyObj
  /\ resets = 0
  /\ resetPending = FALSE
  /\ probeRuns = 0
  /\ selected = "undefined"
  /\ both = NoBoth

\* how many IANAZone objects there are
Count(zs) == Cardinality({ref \in Names \X (1..(MaxZones + 1)) :
                            ref[2] <= Len(zs[ref[1]])})

Create(name) ==
  \E r \in {create(Module, name)} :
      /\ Count(r.m.zones) <= MaxZones
      /\ Store(r.m)
      /\ last' = [NoOp EXCEPT !.op = "create", !.name = name, !.ref = r.ret,
                              !.again = ~Falsy(created[name]),
                              !.constructed = Count(r.m.zones) > Count(zones),
                              !.calls = r.m.calls]
      /\ created' = IF Falsy(created[name])
                      THEN [created EXCEPT ![name] = r.ret] ELSE created
      /\ UNCHANGED <<oracle, resets, resetPending, probeRuns, selected, both>>

ResetCache ==
  /\ resets < MaxResets
  /\ resets' = resets + 1
  /\ Store(resetCache(Module))
  /\ last' = [NoOp EXCEPT !.op = "resetCache"]
  /\ created' = EmptyObj
  /\ resetPending' = TRUE
  /\ UNCHANGED <<oracle, probeRuns, selected, both>>

IsValidZone(s) ==
  \E r \in {isValidZone(Module, s)} :
      /\ Store(r.m)
      /\ last' = [NoOp EXCEPT !.op = "isValidZone", !.name = s,
                              !.bool = r.ret, !.raised = r.raised,
                              !.calls = r.m.calls]
      /\ UNCHANGED <<oracle, created, resets, resetPending, probeRuns,
                     selected, both>>

Offset(name, id, ts, now) ==
  \E r \in {offset(oracle, Module, ZoneRef(name, id), ts, now)} :
      /\ Store(r.m)
      /\ last' = [NoOp EXCEPT !.op = "offset",
                              !.name = zones[name][id].zoneName,
                              !.ref = ZoneRef(name, id), !.ts = ts,
                              !.num = r.val,
                              !.raised = r.raised,
                              !.afterReset = resetPending,
                              !.probed = r.probed, !.log = r.log,
                              !.calls = r.m.calls]
      /\ resetPending' = FALSE
      /\ probeRuns' = IF r.probed /\ probeRuns < 2 THEN probeRuns + 1
                      ELSE probeRuns
      /\ selected' = IF r.probed /\ probeRuns = 0 THEN r.m.offsetFunc
                      ELSE selected
      /\ UNCHANGED <<oracle, created, resets, both>>

Equals(name, id, otherName, otherId) ==
  /\ last' = [NoOp EXCEPT !.op = "equals",
                          !.name = zones[name][id].zoneName,
                          !.ref = ZoneRef(name, id),
                          !.bool = equals(Module, ZoneRef(name, id),
                                          ZoneRef(otherName, otherId))]
  /\ UNCHANGED <<ianaZoneCache, directOffsetDTFCache,
                 calculatedOffsetDTFCache, offsetFunc, zones, dtfs, oracle,
                 created, resets, resetPending, probeRuns, selected, both>>

Next ==
  \/ \E name \in ZoneNames : Create(name)
  \/ ResetCache
  \/ \E s \in Candidates : IsValidZone(s)
  \/ \E name \in ZoneNames : \E id \in 1..Len(zones[name]) :
       \E otherName \in ZoneNames : \E otherId \in 1..Len(zones[otherName]) :
         Equals(name, id, otherName, otherId)
  \/ \E name \in ZoneNames : \E id \in 1..Len(zones[name]) :
       \E ts \in QueryInstants :
         \E now \in IF offsetFunc = "undefined" THEN NowValues
                    ELSE {MkTS(18262, 3600000)} :
           Offset(name, id, ts, now)

Spec == Init /\ [][Next]_vars

\* ------------------------------------------- the two resolvers side by side
\* directOffset and calculatedOffset applied to the same zone and instant
Resolve(zone, ts) ==
  \E d \in {directOffset(oracle, Module, zone, ts)} :
    \E c \in {calculatedOffset(oracle, [d.m EXCEPT !.calls = {}], zone, ts)} :
      /\ Store(c.m)
      /\ both' = [zone |-> zone, ts |-> ts, direct |-> Probed(d),
                  calculated |-> Probed(c)]
      /\ UNCHANGED <<oracle, last, created, resets, resetPending, probeRuns,
                     selected>>

InitResolvers ==
  /\ ianaZoneCache = EmptyObj
  /\ directOffsetDTFCache = EmptyObj
  /\ calculatedOffsetDTFCache = EmptyObj
  /\ offsetFunc = "undefined"
  /\ zones = [n \in Names |-> << >>]
  /\ dtfs = [direct |-> [n \in Names |-> 0], calc |-> [n \in Names |-> 0]]
  /\ oracle \in ResolverOracles
  /\ last = NoOp
  /\ created = EmptyObj
  /\ resets = 0
  /\ resetPending = FALSE
  /\ probeRuns = 0
  /\ selected = "undefined"
  /\ both = NoBoth

NextResolvers ==
  \E zone \in OracleZones \cup {"Fantasia/Castle"} :
    \E ts \in Instants : Resolve(zone, ts)

SpecResolvers == InitResolvers /\ [][NextResolvers]_vars

\* --------------------------------------------- the parsing of directOffset
\* The texts dtf.format may hand to directOffset: free text around the
\* offset token, which renders an offset of a number of seconds
Prefixes == { << >>, <<"1", "9", "7", "0", ",", " ">>, <<"A", "D", " ">> }

Suffixes ==
  { << >>, <<" ", "1", "9", "7", "0">>, <<",", " ", "A", "D">>,
    <<" ", "A", "D">> }

OffsetSeconds ==
  {0, 3600, -3600, -18000, -17762, 19800, 34200, 20762, -12600}

\* lines 111-121 of directOffset applied to a text
ParseOffset(prefix, sec, suffix) ==
  \E text \in {prefix \o OffsetToken(<<"G", "M", "T">>, sec) \o suffix} :
    /\ last' = [NoOp EXCEPT !.op = "directOffsetOf", !.text = text,
                            !.sec = sec, !.tail = suffix,
                            !.num = directOffsetOf(text)]
    /\ UNCHANGED <<ianaZoneCache, directOffsetDTFCache,
                   calculatedOffsetDTFCache, offsetFunc, zones, dtfs, oracle,
                   created, resets, resetPending, probeRuns, selected, both>>

NextParse ==
  \E prefix \in Prefixes : \E sec \in OffsetSeconds : \E suffix \in Suffixes :
    ParseOffset(prefix, sec, suffix)

SpecParse == Init /\ [][NextParse]_vars

\* ------------------------------------------------------------- properties
\* C1: with no resetCache in between, a create(n) that follows an earlier
\* create(n) returns the very reference the earlier call returned, whatever
\* other operations ran in between and whether or not n is a valid zone
C1_CreateSameIdentity ==
  (last.op = "create" /\ last.again) =>
    (last.ref = created[last.name] /\ ~last.constructed)

\* a second create of the invalid name, after the strategy was resolved by
\* an offset query, returned the zone of the first
C1_Witness ==
  /\ last.op = "create" /\ last.again
  /\ last.name = "Fantasia/Castle"
  /\ last.ref = ZoneRef("Fantasia/Castle", 1)
  /\ offsetFunc # "undefined"

\* C2: offset(t) on a zone whose name the oracle rejects returns NaN and
\* does not raise, under either strategy
C2_InvalidZoneOffsetIsNaN ==
  (last.op = "offset" /\ ~AcceptsZone(last.name)) =>
    (~last.raised /\ last.num.nan)

\* C3: the strategy is resolved by the first offset query and by nothing
\* else: the probe runs at most once, the strategy is unresolved exactly
\* until it ran, and from then on offsetFunc is what that probe selected,
\* whatever create, offset, isValidZone and resetCache operations follow
C3_StrategyResolvedOnce ==
  /\ probeRuns <= 1
  /\ (probeRuns = 0) =>
       (offsetFunc = "undefined" /\ selected = "undefined"
          /\ last.op # "offset")
  /\ (probeRuns = 1) =>
       (offsetFunc = selected
          /\ selected \in {"directOffset", "calculatedOffset"})
  /\ (last.op = "offset") => (probeRuns = 1)

\* the first offset query after a resetCache ran no probe and left the
\* strategy an earlier query had resolved
C3_Witness ==
  /\ last.op = "offset" /\ last.afterReset /\ ~last.probed
  /\ resets = 1 /\ probeRuns = 1
  /\ offsetFunc = selected /\ selected = "directOffset"

\* C4 as stated: resetCache clears both formatter caches and the first
\* offset query after a resetCache runs the probe again
C4_ResetReprobes ==
  /\ (last.op = "resetCache") =>
       (directOffsetDTFCache = EmptyObj /\ calculatedOffsetDTFCache = EmptyObj)
  /\ (last.op = "offset" /\ last.afterReset) => last.probed

\* C4 amended: resetCache clears both formatter caches and leaves the
\* strategy alone: the first offset query after it runs the probe only when
\* no query had resolved the strategy before, and otherwise shows the
\* clearing by constructing a formatter anew for an accepted zone and a
\* valid instant
C4_ResetClearsFormatters ==
  /\ (last.op = "resetCache") =>
       (directOffsetDTFCache = EmptyObj /\ calculatedOffsetDTFCache = EmptyObj)
  /\ (last.op = "offset" /\ last.afterReset /\ last.probed) =>
       (probeRuns = 1)
  /\ (last.op = "offset" /\ last.afterReset /\ ~last.probed
        /\ AcceptsZone(last.name) /\ ~last.ts.nan) =>
       (\E c \in last.calls : c.fn = "construct" /\ c.zone = last.name)

\* under Direct the probe had cached the formatter of Etc/GMT; the first
\* query after the resetCache ran no probe and constructed it anew
C4_Witness ==
  /\ last.op = "offset" /\ last.afterReset /\ ~last.probed
  /\ last.name = "Etc/GMT" /\ ~last.ts.nan
  /\ offsetFunc = "directOffset"
  /\ Call("construct", "direct", "Etc/GMT") \in last.calls

\* C5: after resetCache the identity cache and both formatter caches are
\* empty, and the next create(n) returns a newly constructed zone, for
\* every name n
C5_ResetThenCreateConstructs ==
  /\ (last.op = "resetCache") =>
       (ianaZoneCache = EmptyObj /\ directOffsetDTFCache = EmptyObj
          /\ calculatedOffsetDTFCache = EmptyObj)
  /\ (last.op = "create" /\ resets >= 1 /\ ~last.again) =>
       (last.ref.t = "IANAZone" /\ last.constructed)

\* C6: the probe selects Direct exactly when directOffset returned 0 for
\* Etc/GMT, -60 for Etc/GMT+1 and +60 for Etc/GMT-1 (a raise or NaN is a
\* mismatch), selects Calculated otherwise, always resolves the strategy,
\* and raises nothing: a query that ran it raises only for a zone the
\* oracle rejects
C6_ProbeSelects ==
  (last.op = "offset" /\ last.probed) =>
    /\ offsetFunc \in {"directOffset", "calculatedOffset"}
    /\ (offsetFunc = "directOffset") <=>
         (/\ Len(last.log) = 3
          /\ \A i \in 1..3 : ~last.log[i].raised
          /\ last.log[1].val = Num(0)
          /\ last.log[2].val = Num(-60 * MsPerMinute)
          /\ last.log[3].val = Num(60 * MsPerMinute))
    /\ last.raised => ~AcceptsZone(last.name)

\* the probe got 0 for Etc/GMT and a mismatch for Etc/GMT+1, and selected
\* Calculated
C6_Witness ==
  /\ last.op = "offset" /\ last.probed
  /\ offsetFunc = "calculatedOffset"
  /\ Len(last.log) = 2
  /\ last.log[1].val = Num(0) /\ ~last.log[2].raised

\* C7: on an oracle whose offset text and wall-clock fields show the same
\* offset, directOffset and calculatedOffset return the same number for
\* every accepted zone and every valid instant
C7_ResolversAgree ==
  (both.zone \in OracleZones /\ ~both.ts.nan /\ oracle.longOffset = "ok") =>
    /\ ~both.direct.raised /\ ~both.calculated.raised
    /\ ~both.direct.val.nan
    /\ both.direct.val = both.calculated.val

\* New York on local mean time, at a sub-second instant before 1970: both
\* give -4:56:02
C7_Witness ==
  /\ both.zone = "America/New_York" /\ both.ts = MkTS(-40000, 5)
  /\ oracle.longOffset = "ok"
  /\ both.direct.val = Num(-17762000)
  /\ both.calculated.val = Num(-17762000)

\* C8: at every valid instant offset is 0 for Etc/GMT, -60 for Etc/GMT+1
\* and 60 for Etc/GMT-1, whichever strategy the probe selected
C8_ReferenceOffsets ==
  (last.op = "offset" /\ ~last.ts.nan) =>
    /\ (last.name = "Etc/GMT") => (~last.raised /\ last.num = Num(0))
    /\ (last.name = "Etc/GMT+1") =>
         (~last.raised /\ last.num = Num(-60 * MsPerMinute))
    /\ (last.name = "Etc/GMT-1") =>
         (~last.raised /\ last.num = Num(60 * MsPerMinute))

\* Calculated, on an oracle that shows midnight as hour 24, gave 0 for
\* Etc/GMT at the epoch
C8_Witness ==
  /\ last.op = "offset" /\ last.name = "Etc/GMT" /\ last.ts = MkTS(0, 0)
  /\ offsetFunc = "calculatedOffset" /\ oracle.h24
  /\ last.num = Num(0)

\* C9, for the zones the oracle accepts: offset(NaN) returns NaN, raises
\* nothing, and its resolver call constructs no formatter for the queried
\* zone and adds none to a formatter cache
C9_InvalidInstantShortCircuits ==
  (last.op = "offset" /\ last.ts.nan /\ AcceptsZone(last.name)) =>
    /\ ~last.raised /\ last.num.nan
    /\ ~\E c \in last.calls : c.fn = "construct" /\ c.zone = last.name

\* C10: isValidZone(s) is true exactly when the oracle accepts s, raises
\* nothing, asks the oracle nothing for the empty string, and asks it to
\* construct a formatter for every other s
C10_IsValidZone ==
  (last.op = "isValidZone") =>
    /\ ~last.raised
    /\ last.bool <=> AcceptsZone(last.name)
    /\ (last.name = "") <=> (last.calls = {})

\* isValidZone("") returned false and asked the oracle nothing
C10_Witness ==
  /\ last.op = "isValidZone" /\ last.name = ""
  /\ ~last.bool /\ ~last.raised /\ last.calls = {}

\* C11: each formatter cache holds for a zone nothing or the one formatter
\* constructed for that zone and kind since the latest resetCache (at most
\* one construction per zone, kind and reset), and no step other than a
\* resetCache removes or replaces an entry: every later request returns the
\* stored instance
C11_OneFormatterPerZone ==
  /\ [](\A z \in Names :
          /\ dtfs.direct[z] <= resets + 1
          /\ dtfs.calc[z] <= resets + 1
          /\ directOffsetDTFCache[z]
               \in {Undefined, DTFRef(dtfs.direct[z], z, "direct")}
          /\ calculatedOffsetDTFCache[z]
               \in {Undefined, DTFRef(dtfs.calc[z], z, "calc")})
  /\ [][(resets' = resets) =>
          \A z \in Names :
            /\ ~Falsy(directOffsetDTFCache[z]) =>
                 (directOffsetDTFCache'[z] = directOffsetDTFCache[z])
            /\ ~Falsy(calculatedOffsetDTFCache[z]) =>
                 (calculatedOffsetDTFCache'[z] = calculatedOffsetDTFCache[z])
       ]_vars

\* an offset query under Direct found the formatter of New York in the
\* cache: it formatted with the first instance and constructed nothing
C11_Witness ==
  /\ last.op = "offset" /\ last.name = "America/New_York" /\ ~last.probed
  /\ last.calls = {Call("format", "direct", "America/New_York")}
  /\ directOffsetDTFCache["America/New_York"]
       = DTFRef(1, "America/New_York", "direct")

\* C12: a zone object keeps the name it was constructed with and the
\* answer isValidZone gave for that name at construction: no create,
\* offset, isValidZone or resetCache step changes or drops an object that
\* exists, the objects handed out before a resetCache included
C12_ZoneImmutable ==
  /\ [](\A n \in Names : \A i \in 1..Len(zones[n]) :
          /\ zones[n][i].zoneName = n
          /\ zones[n][i].valid = AcceptsZone(n))
  /\ [][\A n \in Names : \A i \in 1..Len(zones[n]) :
          /\ i <= Len(zones'[n])
          /\ zones'[n][i] = zones[n][i]]_vars

\* an offset query on a valid zone that was handed out before a resetCache
\* and is no longer in the identity cache
C12_Witness ==
  /\ last.op = "offset" /\ resets >= 1
  /\ last.ref = ZoneRef("Etc/GMT", 1)
  /\ Falsy(ianaZoneCache["Etc/GMT"])
  /\ zones["Etc/GMT"][1] = [zoneName |-> "Etc/GMT", valid |-> TRUE]

C14_NoSignIsZero ==
  (last.op = "directOffsetOf" /\ last.sec = 0) => (last.num = Num(0))

\* C15: calculatedOffset floors the timestamp to whole seconds, towards
\* negative infinity for negative instants, so for a zone whose offset at
\* the instant is a whole number of minutes the result is that whole number,
\* with no fraction from the sub-second remainder
C15_FlooredToWholeSeconds ==
  (both.zone \in OracleZones /\ ~both.ts.nan
     /\ ZoneOffsetSec(both.zone, both.ts) % 60 = 0) =>
    /\ ~both.calculated.raised /\ ~both.calculated.val.nan
    /\ both.calculated.val = Num(ZoneOffsetSec(both.zone, both.ts) * 1000)
    /\ both.calculated.val.v % MsPerMinute = 0

\* 1.5 seconds before the epoch, in Etc/GMT+1: -60 minutes
C15_Witness ==
  /\ both.zone = "Etc/GMT+1" /\ both.ts = MkTS(0, -1500)
  /\ TSRem(both.ts, 1000) = -500
  /\ both.calculated.val = Num(-60 * MsPerMinute)

\* C16: a BC year y is used as the proleptic year -(|y|) + 1, so for a
\* zone with a fixed offset calculatedOffset gives an instant whose wall
\* clock is in the BC era the same offset as an instant in the AD era
C16_EraBCSameOffset ==
  (both.zone \in {"Etc/GMT", "Etc/GMT+1", "Etc/GMT-1"} /\ ~both.ts.nan
     /\ WallClock(both.zone, both.ts).year <= 0) =>
    /\ ~both.calculated.raised /\ ~both.calculated.val.nan
    /\ both.calculated.val = calculatedOffsetOf(oracle, both.zone, MkTS(0, 0)).val
    /\ both.calculated.val = Num(ZoneOffsetSec(both.zone, both.ts) * 1000)

\* the last hour of 1 BC in Etc/GMT+1: year 1 BC is used as year 0
C16_Witness ==
  /\ both.zone = "Etc/GMT+1" /\ both.ts = MkTS(-719528 + 366, -3600000)
  /\ WallClock(both.zone, both.ts).year = 0
  /\ EraYear(WallClock(both.zone, both.ts).year) = 1
  /\ both.calculated.val = Num(-60 * MsPerMinute)

\* C17: for every string name, create(name) returns an IANAZone whose name
\* is the given name and whose validity is isValidZone(name), on the first
\* request in a fresh or freshly reset cache too, and for names that are
\* built-in property names of a plain object, such as "constructor"
C17_CreateReturnsZone ==
  (last.op = "create") =>
    /\ last.ref.t = "IANAZone"
    /\ last.ref.zone = last.name
    /\ last.ref.id \in 1..Len(zones[last.name])
    /\ zones[last.name][last.ref.id] =
         [zoneName |-> last.name, valid |-> AcceptsZone(last.name)]

\* C18: while the strategy is Calculated the direct formatter cache holds
\* no key but the probe zones Etc/GMT, Etc/GMT+1 and Etc/GMT-1, while it is
\* Direct the calculated formatter cache is empty, and create, isValidZone
\* and equals leave both formatter caches as they are
C18_CachesFollowStrategy ==
  /\ [](/\ (offsetFunc = "calculatedOffset") =>
             \A z \in Names : ~Falsy(directOffsetDTFCache[z]) =>
               z \in {"Etc/GMT", "Etc/GMT+1", "Etc/GMT-1"}
        /\ (offsetFunc = "directOffset") =>
             (calculatedOffsetDTFCache = EmptyObj))
  /\ [][(last'.op \in {"create", "isValidZone", "equals"}) =>
          UNCHANGED <<directOffsetDTFCache, calculatedOffsetDTFCache>>]_vars

\* Calculated was selected after the probe built the direct formatters of
\* Etc/GMT and Etc/GMT+1, and a query for New York built a calculated one
C18_Witness ==
  /\ offsetFunc = "calculatedOffset"
  /\ ~Falsy(directOffsetDTFCache["Etc/GMT"])
  /\ ~Falsy(directOffsetDTFCache["Etc/GMT+1"])
  /\ Falsy(directOffsetDTFCache["America/New_York"])
  /\ ~Falsy(calculatedOffsetDTFCache["America/New_York"])
  /\ last.op = "equals"

\* C19 as stated: every key of either formatter cache is a zone name the
\* oracle accepts, and an offset query that fails at formatter construction
\* leaves both formatter caches and the identity cache exactly as they were
C19_FailedQueryChangesNothing ==
  /\ [](\A z \in Names :
          (~Falsy(directOffsetDTFCache[z])
             \/ ~Falsy(calculatedOffsetDTFCache[z])) => AcceptsZone(z))
  /\ [][(last'.op = "offset" /\ last'.raised) =>
          UNCHANGED <<directOffsetDTFCache, calculatedOffsetDTFCache,
                      ianaZoneCache>>]_vars

\* C19 amended: every key of either formatter cache is a zone name the
\* oracle accepts; an offset query that fails at formatter construction
\* stores no formatter for the queried zone and leaves the identity cache
\* and the calculated formatter cache as they were, and the direct
\* formatter cache too, except that the query that ran the probe may have
\* added direct formatters of the probe zones
C19_FailedQueryStoresNothingForZone ==
  /\ [](\A z \in Names :
          (~Falsy(directOffsetDTFCache[z])
             \/ ~Falsy(calculatedOffsetDTFCache[z])) => AcceptsZone(z))
  /\ [][(last'.op = "offset" /\ last'.raised) =>
          /\ UNCHANGED <<calculatedOffsetDTFCache, ianaZoneCache>>
          /\ Falsy(directOffsetDTFCache'[last'.name])
          /\ Falsy(calculatedOffsetDTFCache'[last'.name])
          /\ \A z \in Names \ {"Etc/GMT", "Etc/GMT+1", "Etc/GMT-1"} :
               directOffsetDTFCache'[z] = directOffsetDTFCache[z]
          /\ (~last'.probed) => UNCHANGED directOffsetDTFCache]_vars

\* the first query, for a zone the oracle rejects: the probe stored the
\* direct formatters of the probe zones, the query raised and stored none
C19_Witness ==
  /\ last.op = "offset" /\ last.raised /\ last.probed
  /\ last.name = "Fantasia/Castle"
  /\ Call("construct", "direct", "Fantasia/Castle") \in last.calls
  /\ ~Falsy(directOffsetDTFCache["Etc/GMT"])
  /\ Falsy(directOffsetDTFCache["Fantasia/Castle"])
  /\ ~Falsy(ianaZoneCache["Fantasia/Castle"])

====
